---------------------------- MODULE Spec2Model ----------------------------
(***************************************************************************)
(* Image search engine: the index builder (image_indexer.py) and the query *)
(* scorer (backend/main.py) over the three MongoDB collections             *)
(* image_files, image_documents and image_terms.                           *)
(*                                                                         *)
(* Text is a sequence of one-character strings.  Floating-point logarithms *)
(* are fixed-point integers in units of 1/1000 (LnMilli); a score, the     *)
(* product of two of them, is an integer in units of 1/1000000.  ln 1 = 0  *)
(* and the sign of ln(a/b) are exact.                                      *)
(***************************************************************************)
EXTENDS Integers, Sequences, FiniteSets, TLC

VARIABLES
    \* tokenizer harness
    text, tpc, tokensB, tokensQ, retokB, retokQ,
    \* the store
    image_files, image_documents, image_terms,
    \* build_image_index
    bpc, docs_bulk, index_docs, batch_i, old_docs, old_terms,
    \* search_images
    spc, query, limit, index_entries, docs_by_id, results, reads, seen_docs

tokvars == <<text, tpc, tokensB, tokensQ, retokB, retokQ>>
storevars == <<image_files, image_documents, image_terms>>
buildvars == <<bpc, docs_bulk, index_docs, batch_i, old_docs, old_terms>>
searchvars == <<spc, query, limit, index_entries, docs_by_id, results, reads, seen_docs>>
vars == <<tokvars, storevars, buildvars, searchvars>>

----------------------------------------------------------------------------
(* Characters and strings *)

UpperChars ==
    <<"A","B","C","D","E","F","G","H","I","J","K","L","M","N","O","P","Q","R","S","T","U","V","W","X","Y","Z">>
LowerChars ==
    <<"a","b","c","d","e","f","g","h","i","j","k","l","m","n","o","p","q","r","s","t","u","v","w","x","y","z">>
DigitChars ==
    <<"0","1","2","3","4","5","6","7","8","9">>

Range(s) == {s[i] : i \in DOMAIN s}

UpperSet == Range(UpperChars)
LowerSet == Range(LowerChars)
DigitSet == Range(DigitChars)

LowerOf ==
    [c \in UpperSet |->
        LowerChars[CHOOSE i \in DOMAIN UpperChars : UpperChars[i] = c]]

\* str.lower() on one ASCII character
LowerChar(c) == IF c \in UpperSet THEN LowerOf[c] ELSE c

\* str.lower()
Lower(s) == [i \in DOMAIN s |-> LowerChar(s[i])]

\* the character class of TOKEN_RE: [a-z0-9] with IGNORECASE, [a-zA-Z0-9]
TokenChars == LowerSet \cup UpperSet \cup DigitSet

IsTokenChar(c) == c \in TokenChars

RECURSIVE ScanTokens(_, _, _)
ScanTokens(s, cur, acc) ==
    IF s = <<>>
    THEN IF cur = <<>> THEN acc ELSE Append(acc, cur)
    ELSE IF IsTokenChar(Head(s))
         THEN ScanTokens(Tail(s), Append(cur, Head(s)), acc)
         ELSE ScanTokens(Tail(s), <<>>,
                         IF cur = <<>> THEN acc ELSE Append(acc, cur))

\* TOKEN_RE.findall(text): the maximal runs of token characters, left to right
TOKEN_RE_findall(s) == ScanTokens(s, <<>>, <<>>)

RECURSIVE JoinWith(_, _)
\* sep.join(parts)
JoinWith(parts, sep) ==
    IF parts = <<>> THEN <<>>
    ELSE IF Len(parts) = 1 THEN parts[1]
         ELSE parts[1] \o sep \o JoinWith(Tail(parts), sep)

\* " ".join(parts)
Join(parts) == JoinWith(parts, <<" ">>)

----------------------------------------------------------------------------
(* Tokenizers *)

STOPWORDS ==
  {
    <<"t","h","e">>, <<"i","s">>, <<"i","n">>, <<"a","t">>, <<"o","f">>,
    <<"a">>, <<"a","n">>, <<"a","n","d">>, <<"o","r">>, <<"t","o">>,
    <<"f","o","r">>, <<"o","n">>, <<"w","i","t","h">>, <<"b","y">>,
    <<"t","h","i","s">>, <<"t","h","a","t">>, <<"i","t">>, <<"a","s">>,
    <<"a","r","e">>, <<"w","a","s">>, <<"w","e","r","e">>, <<"b","e">>,
    <<"f","r","o","m">>, <<"w","h","i","c","h">>, <<"i","n","t","o">>,
    <<"a","b","o","u","t">>, <<"c","a","n">>, <<"w","i","l","l">>,
    <<"h","a","s">>, <<"h","a","v","e">>, <<"h","a","d">>, <<"y","o","u">>,
    <<"y","o","u","r">>, <<"w","e">>, <<"t","h","e","y">>,
    <<"t","h","e","i","r">>, <<"o","u","r">>, <<"n","o","t">>,
    <<"i","m","a","g","e">>, <<"j","p","g">>, <<"j","p","e","g">>,
    <<"p","n","g">>, <<"w","e","b","p">>, <<"g","i","f">>
  }

STOPWORDS_main ==
  {
    <<"t","h","e">>, <<"i","s">>, <<"i","n">>, <<"a","t">>, <<"o","f">>,
    <<"a">>, <<"a","n">>, <<"a","n","d">>, <<"o","r">>, <<"t","o">>,
    <<"f","o","r">>, <<"o","n">>, <<"w","i","t","h">>, <<"b","y">>,
    <<"t","h","i","s">>, <<"t","h","a","t">>, <<"i","t">>, <<"a","s">>,
    <<"a","r","e">>, <<"w","a","s">>, <<"w","e","r","e">>, <<"b","e">>,
    <<"f","r","o","m">>, <<"w","h","i","c","h">>, <<"i","n","t","o">>,
    <<"a","b","o","u","t">>, <<"c","a","n">>, <<"w","i","l","l">>,
    <<"h","a","s">>, <<"h","a","v","e">>, <<"h","a","d">>, <<"y","o","u">>,
    <<"y","o","u","r">>, <<"w","e">>, <<"t","h","e","y">>,
    <<"t","h","e","i","r">>, <<"o","u","r">>, <<"n","o","t">>,
    <<"i","m","a","g","e">>, <<"j","p","g">>, <<"j","p","e","g">>,
    <<"p","n","g">>, <<"g","i","f">>, <<"w","e","b","p">>
  }

MinTokenLen == 2

KeepToken(t) == Len(t) > MinTokenLen /\ t \notin STOPWORDS

KeepToken_main(t) == Len(t) > MinTokenLen /\ t \notin STOPWORDS_main

\* the stopword filter applied to the text as written, lowercasing last
tokenize_FilterBeforeLower(s) ==
    LET kept == SelectSeq(TOKEN_RE_findall(s), KeepToken)
    IN  [i \in DOMAIN kept |-> Lower(kept[i])]

\* image_indexer.tokenize
tokenize(s) == SelectSeq(TOKEN_RE_findall(Lower(s)), KeepToken)

\* backend/main.tokenize
tokenize_main(s) == SelectSeq(TOKEN_RE_findall(Lower(s)), KeepToken_main)

----------------------------------------------------------------------------
(* URL helpers.  A URL is the record urlparse makes of it: scheme, host and *)
(* path; the empty string is NoUrl.  The sample URLs carry no port, query, *)
(* fragment or percent-escape, so unquote leaves the path as it is.        *)

NoUrl == [scheme |-> <<>>, host |-> <<>>, path |-> <<>>]

\* the URL as the string the record stores
UrlString(u) ==
    IF u = NoUrl THEN <<>>
    ELSE u.scheme \o <<":", "/", "/">> \o u.host \o u.path

RECURSIVE ScanSplit(_, _, _, _, _)
ScanSplit(s, Seps, cur, acc, inSep) ==
    IF s = <<>> THEN Append(acc, cur)
    ELSE IF Head(s) \in Seps
         THEN IF inSep
              THEN ScanSplit(Tail(s), Seps, <<>>, acc, TRUE)
              ELSE ScanSplit(Tail(s), Seps, <<>>, Append(acc, cur), TRUE)
         ELSE ScanSplit(Tail(s), Seps, Append(cur, Head(s)), acc, FALSE)

\* re.split(r"[<Seps>]+", s): the pieces between runs of separators, the
\* empty pieces at either end included
re_split(s, Seps) == ScanSplit(s, Seps, <<>>, <<>>, FALSE)

NonEmpty(p) == p # <<>>

PathSeps == {"/", "-", ".", "_"}

HostSeps == {".", "-"}

FilenameSeps == {"-", "_"}

\* os.path.basename: what follows the last "/"
basename(path) ==
    LET slashes == {i \in DOMAIN path : path[i] = "/"}
    IN  IF slashes = {} THEN path
        ELSE LET last == CHOOSE i \in slashes : \A j \in slashes : j <= i
             IN  SubSeq(path, last + 1, Len(path))

\* image_indexer.tokens_from_url
tokens_from_url(u) ==
    IF UrlString(u) = <<>> THEN <<>>
    ELSE LET parts == SelectSeq(re_split(u.path, PathSeps), NonEmpty)
             host_tokens == re_split(Lower(u.host), HostSeps)
         IN  tokenize(Join(parts \o host_tokens))

----------------------------------------------------------------------------
(* Logarithms and scores *)

\* round(1000 * ln n) for n = 1 .. 12
LnMilli == <<0, 693, 1099, 1386, 1609, 1792, 1946, 2079, 2197, 2303, 2398, 2485>>

Milli == 1000

RECURSIVE GCD(_, _)
GCD(a, b) == IF b = 0 THEN a ELSE GCD(b, a % b)

\* math.log(n / d): the quotient is one float whatever the common factor
Log(n, d) ==
    LET g == GCD(n, d)
    IN  LnMilli[n \div g] - LnMilli[d \div g]

\* idf = math.log(num_docs / (1 + df))
Idf(num_docs, df) == Log(num_docs, 1 + df)

\* (1 + math.log(tf)) * idf
PostingScore(tf, idf) == (Milli + LnMilli[tf]) * idf

----------------------------------------------------------------------------
(* build_image_index: the per-image work of the loop at lines 120-189 *)

SnippetUrlMax == 300

filename_of(img) == basename(img.file_url.path)

\* the fields joined into the combined text, empty ones left out
TextParts(img) ==
    SelectSeq(<< img.alt_text,
                 img.caption_text,
                 JoinWith(re_split(filename_of(img), FilenameSeps), <<" ">>),
                 UrlString(img.page_url),
                 img.domain_name,
                 img.format >>, NonEmpty)

\* tokens of one image: the combined text, then both URLs' tokens
ImageTokens(img) ==
    tokenize(Join(TextParts(img)))
        \o tokens_from_url(img.page_url)
        \o tokens_from_url(img.file_url)

Prefix(s, n) == SubSeq(s, 1, IF Len(s) < n THEN Len(s) ELSE n)

\* caption, else alt, else filename, else the page URL cut to 300
Snippet(img) ==
    IF img.caption_text # <<>> THEN img.caption_text
    ELSE IF img.alt_text # <<>> THEN img.alt_text
    ELSE IF filename_of(img) # <<>> THEN filename_of(img)
    ELSE Prefix(UrlString(img.page_url), SnippetUrlMax)

\* every image is indexed, token or not
AnyImage(img) == TRUE

HasTokens(img) == ImageTokens(img) # <<>>

\* the images the loop indexes: those with at least one token (line 161)
IndexedImages(images) == SelectSeq(images, HasTokens)

\* one image_documents document (lines 223-233)
DocEntry(img) ==
    [ _id          |-> img._id,
      file_url     |-> UrlString(img.file_url),
      alt_text     |-> img.alt_text,
      caption_text |-> img.caption_text,
      page_url     |-> UrlString(img.page_url),
      domain_name  |-> img.domain_name,
      format       |-> img.format,
      length       |-> Len(ImageTokens(img)),
      snippet      |-> Snippet(img) ]

DocsBulk(images) ==
    LET idx == IndexedImages(images)
    IN  [i \in DOMAIN idx |-> DocEntry(idx[i])]

RECURSIVE Dedupe(_, _)
Dedupe(s, acc) ==
    IF s = <<>> THEN acc
    ELSE Dedupe(Tail(s),
                IF Head(s) \in Range(acc) THEN acc ELSE Append(acc, Head(s)))

RECURSIVE AllTokens(_)
AllTokens(images) ==
    IF images = <<>> THEN <<>>
    ELSE ImageTokens(Head(images)) \o AllTokens(Tail(images))

\* the terms in the order inverted_index first sees them
TermOrder(images) == Dedupe(AllTokens(IndexedImages(images)), <<>>)

\* Counter(tokens)[term]
Count(tokens, term) == Cardinality({i \in DOMAIN tokens : tokens[i] = term})

\* the posting list of a term, in the order the images were read
Postings(images, term) ==
    LET idx == IndexedImages(images)
        with == SelectSeq(idx, LAMBDA img : Count(ImageTokens(img), term) > 0)
    IN  [i \in DOMAIN with |->
            [doc_id |-> with[i]._id, tf |-> Count(ImageTokens(with[i]), term)]]

NumDocs(images) == Len(IndexedImages(images))

\* one image_terms document (lines 200-211)
TermEntry(images, term) ==
    LET postings == Postings(images, term)
    IN  [ term |-> term,
          idf  |-> Idf(NumDocs(images), Len(postings)),
          docs |-> postings ]

IndexDocs(images) ==
    LET terms == TermOrder(images)
    IN  [i \in DOMAIN terms |-> TermEntry(images, terms[i])]

----------------------------------------------------------------------------
(* search_images: scoring, ranking and metadata lookup *)

RECURSIVE Contributions(_)
\* one (doc_id, score) per posting, in the order lines 81-89 visit them
Contributions(entries) ==
    IF entries = <<>> THEN <<>>
    ELSE LET e == Head(entries)
         IN  [i \in DOMAIN e.docs |->
                 [doc_id |-> e.docs[i].doc_id,
                  score  |-> PostingScore(e.docs[i].tf, e.idf)]]
             \o Contributions(Tail(entries))

RECURSIVE Accumulate(_, _)
\* scores[doc_id] += score, the dictionary kept in insertion order
Accumulate(cs, acc) ==
    IF cs = <<>> THEN acc
    ELSE LET c == Head(cs)
             at == {i \in DOMAIN acc : acc[i].doc_id = c.doc_id}
         IN  Accumulate(Tail(cs),
                 IF at = {} THEN Append(acc, c)
                 ELSE [i \in DOMAIN acc |->
                          IF i \in at
                          THEN [acc[i] EXCEPT !.score = @ + c.score]
                          ELSE acc[i]])

Scores(entries) == Accumulate(Contributions(entries), <<>>)

InsertAsc(sorted, x) ==
    LET k == Cardinality({i \in DOMAIN sorted : sorted[i].score <= x.score})
    IN  SubSeq(sorted, 1, k) \o <<x>> \o SubSeq(sorted, k + 1, Len(sorted))

\* x placed after every element whose score is at least its own
InsertDesc(sorted, x) ==
    LET k == Cardinality({i \in DOMAIN sorted : sorted[i].score >= x.score})
    IN  SubSeq(sorted, 1, k) \o <<x>> \o SubSeq(sorted, k + 1, Len(sorted))

RECURSIVE SortInto(_, _)
SortInto(s, acc) ==
    IF s = <<>> THEN acc ELSE SortInto(Tail(s), InsertDesc(acc, Head(s)))

\* sorted(scores.items(), key=score, reverse=True): stable, descending
SortDesc(s) == SortInto(s, <<>>)

\* the slice s[:k]; a negative k counts from the end
Truncate(s, k) ==
    IF k >= 0
    THEN SubSeq(s, 1, IF k < Len(s) THEN k ELSE Len(s))
    ELSE SubSeq(s, 1, IF Len(s) + k > 0 THEN Len(s) + k ELSE 0)

\* document ids: a native ObjectId, its 24-digit hex string, or an integer
Oid(n) == [kind |-> "ObjectId", n |-> n]

HexStr(n) == [kind |-> "hexstr", n |-> n]

IntId(n) == [kind |-> "int", n |-> n]

\* ObjectId(d) raises for anything but an ObjectId or its hex string
CanObjectId(d) == d.kind \in {"ObjectId", "hexstr"}

\* ObjectId(d) if not isinstance(d, ObjectId) else d
ObjectId(d) == Oid(d.n)

\* str(doc_id)
Str(d) == IF d.kind = "ObjectId" THEN HexStr(d.n) ELSE d

\* IMG_DOCS.find({"_id": {"$in": ids}})
FetchDocs(table, ids) == {doc \in table : doc._id \in ids}

\* IMG_INDEX.find({"term": {"$in": terms}})
FetchTerms(table, terms) == {e \in table : e.term \in Range(terms)}

Hit(c, meta) ==
    [ id       |-> Str(c.doc_id),
      file_url |-> meta.file_url,
      alt      |-> meta.alt_text,
      caption  |-> meta.caption_text,
      page_url |-> meta.page_url,
      domain   |-> meta.domain_name,
      format   |-> meta.format,
      snippet  |-> meta.snippet,
      score    |-> c.score ]

RECURSIVE Hits(_, _)
\* lines 117-135: a candidate is kept when docs_by_id has its doc_id
Hits(top_docs, fetched) ==
    IF top_docs = <<>> THEN <<>>
    ELSE LET c == Head(top_docs)
             found == {doc \in fetched : doc._id = c.doc_id}
         IN  (IF found = {} THEN <<>>
              ELSE <<Hit(c, CHOOSE doc \in found : TRUE)>>)
             \o Hits(Tail(top_docs), fetched)

TopDocs(entries, k) == Truncate(SortDesc(Scores(entries)), k)

NormalizedIds(top_docs) == {ObjectId(top_docs[i].doc_id) : i \in DOMAIN top_docs}

Perms(S) ==
    {s \in [1 .. Cardinality(S) -> S] : \A x \in S : \E i \in DOMAIN s : s[i] = x}

----------------------------------------------------------------------------
(* Sample records, queries and limits *)

MaxDocs == 2

MaxLimit == 2

DefaultLimit == 25

batch_size == 1000

Content(alt, caption, file_url, page_url, domain, fmt) ==
    [ alt_text |-> alt, caption_text |-> caption, file_url |-> file_url,
      page_url |-> page_url, domain_name |-> domain, format |-> fmt ]

\* a record with text but no token: a stopword caption and a format word
StopwordOnly == Content(<<>>, <<"T", "h", "e">>, NoUrl, NoUrl, <<>>, <<"j", "p", "g">>)

CaptionOnly == Content(<<>>, <<"r", "e", "d", " ", "c", "a", "r">>, NoUrl, NoUrl, <<>>, <<>>)

\* no text field: the tokens come from the file URL alone
UrlOnly ==
    Content(<<>>, <<>>,
            [scheme |-> <<"h", "t", "t", "p", "s">>, host |-> <<"i", "m", "g", ".", "i", "o">>,
             path |-> <<"/", "a", "/", "r", "e", "d", "-", "c", "a", "r", "_", "2", "0", "2", "3", ".", "j", "p", "g">>],
            NoUrl, <<>>, <<>>)

SampleContents == <<StopwordOnly, CaptionOnly, UrlOnly>>

SignalContents == <<CaptionOnly, UrlOnly>>

\* a document of image_files, as the projection of lines 86-94 returns it
Image(id, c) ==
    [ _id |-> id, alt_text |-> c.alt_text, caption_text |-> c.caption_text,
      file_url |-> c.file_url, page_url |-> c.page_url,
      domain_name |-> c.domain_name, format |-> c.format ]

RECURSIVE CorpusFrom(_, _, _, _)
CorpusFrom(ids, contents, f, i) ==
    IF i > Len(ids) THEN <<>>
    ELSE (IF f[i] = 0 THEN <<>> ELSE <<Image(ids[i], contents[f[i]])>>)
         \o CorpusFrom(ids, contents, f, i + 1)

\* every collection of at most MaxDocs records over the given ids and
\* contents, in the order the crawler inserted them (the order of ids)
Corpora(ids, contents) ==
    { CorpusFrom(ids, contents, f, 1) :
        f \in { g \in [DOMAIN ids -> 0 .. Len(contents)] :
                  Cardinality({i \in DOMAIN ids : g[i] # 0}) <= MaxDocs } }

\* every id holds the same content
UniformCorpora(ids, contents) ==
    { [i \in DOMAIN ids |-> Image(ids[i], contents[c])] : c \in DOMAIN contents }

NativeIds == [n \in 1 .. MaxDocs |-> Oid(n)]

MixedIds == <<Oid(1), HexStr(1), Oid(2), IntId(1)>>

CaptionImage(id, caption) ==
    Image(id, Content(<<>>, caption, NoUrl, NoUrl, <<>>, <<>>))

DocA == Oid(1)

DocB == Oid(2)

DocC == Oid(3)

\* the three-caption corpus of the end-to-end scenario
ScenarioCorpus ==
    << CaptionImage(DocA, <<"r", "e", "d", " ", "s", "p", "o", "r", "t", "s", " ", "c", "a", "r">>),
       CaptionImage(DocB, <<"b", "l", "u", "e", " ", "c", "a", "r", " ", "f", "o", "r", " ", "s", "a", "l", "e">>),
       CaptionImage(DocC, <<"r", "e", "d", " ", "b", "i", "c", "y", "c", "l", "e">>) >>

RedCar == <<"r", "e", "d", " ", "c", "a", "r">>

Queries == { RedCar, <<"R", "e", "d", " ", "S", "p", "o", "r", "t", "s", " ", "C", "a", "r">>, <<"t", "h", "e">> }

Limits == ((-1) .. MaxLimit) \cup {DefaultLimit}

----------------------------------------------------------------------------
(* Initial states *)

TokIdle ==
    /\ text = <<>> /\ tpc = "off"
    /\ tokensB = <<>> /\ tokensQ = <<>> /\ retokB = <<>> /\ retokQ = <<>>

BuildIdle ==
    /\ bpc = "idle" /\ docs_bulk = <<>> /\ index_docs = <<>> /\ batch_i = 0
    /\ old_docs = image_documents /\ old_terms = image_terms

\* the request search_images will serve
SearchIdle(q, k) ==
    /\ spc = "idle" /\ query = q /\ limit = k
    /\ index_entries = <<>> /\ docs_by_id = {} /\ results = <<>>
    /\ reads = 0 /\ seen_docs = {}

\* image_files holds `corpus`; the two output collections hold what an
\* earlier, completed run wrote when image_files held `prior`
StoreAfter(prior, corpus) ==
    /\ image_files = corpus
    /\ image_documents = Range(DocsBulk(prior))
    /\ image_terms = Range(IndexDocs(prior))

\* the crawler has changed image_files since the last completed run, if
\* there was one; one request for "red car" with the default limit
Init ==
    /\ \E prior \in {<<>>} \cup UniformCorpora(NativeIds, SampleContents),
          corpus \in Corpora(NativeIds, SampleContents) :
          StoreAfter(prior, corpus)
    /\ TokIdle /\ BuildIdle /\ SearchIdle(RedCar, DefaultLimit)

\* the index is up to date with image_files; any request
InitSearch ==
    /\ \E corpus \in Corpora(MixedIds, SignalContents) \cup {ScenarioCorpus} :
          StoreAfter(corpus, corpus)
    /\ TokIdle /\ BuildIdle
    /\ \E q \in Queries, k \in Limits : SearchIdle(q, k)

----------------------------------------------------------------------------
(* build_image_index *)

Persisting == {"drop_docs", "drop_terms", "insert_docs", "insert_terms"}

BuildOutcome_NeverAborts(images) == "drop_docs"

\* lines 110-112 and 191-196: the two early returns
BuildOutcome(images) ==
    IF images = <<>> THEN "no_images"
    ELSE IF NumDocs(images) = 0 THEN "no_tokens"
    ELSE "drop_docs"

\* lines 96-213: read image_files, build both tables in memory; return
\* early when there is no image or no image has a token
BuildStart ==
    /\ bpc = "idle"
    /\ LET images == image_files
       IN  /\ bpc' = BuildOutcome(images)
           /\ docs_bulk' = IF NumDocs(images) = 0 THEN <<>> ELSE DocsBulk(images)
           /\ index_docs' = IF NumDocs(images) = 0 THEN <<>> ELSE IndexDocs(images)
    /\ batch_i' = 0
    /\ old_docs' = image_documents
    /\ old_terms' = image_terms
    /\ UNCHANGED <<tokvars, storevars, searchvars>>

\* line 217: IMAGE_DOCS_COLL.drop()
DropDocs ==
    /\ bpc = "drop_docs"
    /\ image_documents' = {}
    /\ bpc' = "drop_terms"
    /\ UNCHANGED <<tokvars, image_files, image_terms, docs_bulk, index_docs,
                   batch_i, old_docs, old_terms, searchvars>>

\* line 218: IMAGE_INDEX_COLL.drop()
DropTerms ==
    /\ bpc = "drop_terms"
    /\ image_terms' = {}
    /\ bpc' = "insert_docs"
    /\ UNCHANGED <<tokvars, image_files, image_documents, docs_bulk,
                   index_docs, batch_i, old_docs, old_terms, searchvars>>

\* lines 235-236: IMAGE_DOCS_COLL.insert_many(docs_bulk)
InsertDocs ==
    /\ bpc = "insert_docs"
    /\ image_documents' = image_documents \cup Range(docs_bulk)
    /\ bpc' = IF Len(index_docs) = 0 THEN "complete" ELSE "insert_terms"
    /\ UNCHANGED <<tokvars, image_files, image_terms, docs_bulk, index_docs,
                   batch_i, old_docs, old_terms, searchvars>>

\* lines 241-244: one insert_many of the next batch_size term entries
InsertTermsBatch ==
    /\ bpc = "insert_terms"
    /\ LET upto == IF batch_i + batch_size < Len(index_docs)
                   THEN batch_i + batch_size ELSE Len(index_docs)
           batch == SubSeq(index_docs, batch_i + 1, upto)
       IN  /\ image_terms' = image_terms \cup Range(batch)
           /\ batch_i' = batch_i + batch_size
           /\ bpc' = IF batch_i + batch_size < Len(index_docs)
                     THEN "insert_terms" ELSE "complete"
    /\ UNCHANGED <<tokvars, image_files, image_documents, docs_bulk,
                   index_docs, old_docs, old_terms, searchvars>>

\* a store call of the persistence phase raises, or the job is killed
BuildFail ==
    /\ bpc \in Persisting
    /\ bpc' = "failed"
    /\ UNCHANGED <<tokvars, storevars, docs_bulk, index_docs, batch_i,
                   old_docs, old_terms, searchvars>>

Persist ==
    \/ DropDocs
    \/ DropTerms
    \/ InsertDocs
    \/ InsertTermsBatch

----------------------------------------------------------------------------
(* search_images *)

\* lines 69-76: tokenize the query and read the term entries, which the
\* store returns in an order of its own
SearchStart ==
    /\ spc = "idle"
    /\ LET terms == tokenize_main(query)
           found == IF terms = <<>> THEN {}
                    ELSE FetchTerms(image_terms, terms)
       IN  /\ reads' = IF terms = <<>> THEN 0 ELSE 1
           /\ \E order \in Perms(found) : index_entries' = order
           /\ spc' = IF found = {} THEN "done" ELSE "scoring"
    /\ UNCHANGED <<tokvars, storevars, buildvars, query, limit, docs_by_id,
                   results, seen_docs>>

\* lines 78-135: score, sort, truncate, read the metadata, build the results
SearchFetch ==
    /\ spc = "scoring"
    /\ LET top_docs == TopDocs(index_entries, limit)
           convertible == \A i \in DOMAIN top_docs :
                              CanObjectId(top_docs[i].doc_id)
           fetched == FetchDocs(image_documents, NormalizedIds(top_docs))
       IN  IF Scores(index_entries) = <<>>
           THEN /\ spc' = "done"
                /\ UNCHANGED <<docs_by_id, results, reads, seen_docs>>
           ELSE IF ~convertible
           THEN /\ spc' = "error"
                /\ UNCHANGED <<docs_by_id, results, reads, seen_docs>>
           ELSE /\ spc' = "done"
                /\ docs_by_id' = fetched
                /\ seen_docs' = image_documents
                /\ reads' = 2
                /\ results' = Hits(top_docs, fetched)
    /\ UNCHANGED <<tokvars, storevars, buildvars, query, limit, index_entries>>

Search ==
    \/ SearchStart
    \/ SearchFetch

----------------------------------------------------------------------------
(* Tokenizer harness: tokenize a text, join the tokens, tokenize again *)

MaxTextLen == 7

TextAlphabet == {"t", "h", "e", "T", " "}

Texts == UNION {[1 .. n -> TextAlphabet] : n \in 0 .. MaxTextLen}

InitTok ==
    /\ text \in Texts
    /\ tpc = "input"
    /\ tokensB = <<>> /\ tokensQ = <<>> /\ retokB = <<>> /\ retokQ = <<>>
    /\ StoreAfter(<<>>, <<>>)
    /\ BuildIdle /\ SearchIdle(<<>>, DefaultLimit)

TokenizeText ==
    /\ tpc = "input"
    /\ tokensB' = tokenize(text)
    /\ tokensQ' = tokenize_main(text)
    /\ tpc' = "tokenized"
    /\ UNCHANGED <<text, retokB, retokQ, storevars, buildvars, searchvars>>

TokenizeJoined ==
    /\ tpc = "tokenized"
    /\ retokB' = tokenize(Join(tokensB))
    /\ retokQ' = tokenize_main(Join(tokensQ))
    /\ tpc' = "done"
    /\ UNCHANGED <<text, tokensB, tokensQ, storevars, buildvars, searchvars>>

----------------------------------------------------------------------------
(* Properties *)

DocIds(table) == {d._id : d \in table}

PostedIds(table) == UNION {{e.docs[j].doc_id : j \in DOMAIN e.docs} : e \in table}

\* the tables the run leaves when it completes; a run that has not passed
\* its early returns leaves them as they were
NewDocs == IF bpc \in Persisting \cup {"complete", "failed"}
           THEN Range(docs_bulk) ELSE old_docs

NewTerms == IF bpc \in Persisting \cup {"complete", "failed"}
            THEN Range(index_docs) ELSE old_terms

\* what the search read is what it would have read from tables D and T
ObservedFrom(D, T) ==
    /\ Range(index_entries) = FetchTerms(T, tokenize_main(query))
    /\ reads = 2 =>
         docs_by_id = FetchDocs(D, NormalizedIds(TopDocs(index_entries, limit)))

\* C1: a search that runs while a build runs reads either the complete
\* prior index or the complete new one from the two tables, never an
\* empty, partial or mixed state.
C1_SearchSeesOldOrNew ==
    (spc = "done" /\ reads >= 1 /\ bpc # "failed")
        => \/ ObservedFrom(old_docs, old_terms)
           \/ ObservedFrom(NewDocs, NewTerms)

\* C2: a build that fails or is aborted in its persistence phase leaves
\* both tables holding the complete prior index or the complete new one.
C2_FailedBuildLeavesOldOrNew ==
    bpc = "failed"
        => \/ image_documents = old_docs /\ image_terms = old_terms
           \/ image_documents = NewDocs /\ image_terms = NewTerms

\* C3: when image_files is empty or no record of it yields a token, no
\* step of the build drops or writes either output table, and the build
\* returns without entering its persistence phase.
C3_EmptyBuildWritesNothing ==
    [][ NumDocs(image_files) = 0
          => /\ UNCHANGED <<image_documents, image_terms>>
             /\ bpc' \in {"idle", "no_images", "no_tokens"} ]_vars

\* a build returned early from a source with records but no token, and the
\* prior index is still there
C3_Witness ==
    /\ bpc = "no_tokens"
    /\ image_files # <<>>
    /\ image_documents # {}
    /\ image_terms # {}

NonIncreasing(rs) ==
    \A i, j \in DOMAIN rs : i < j => rs[i].score >= rs[j].score

\* C4 as stated: for every integer limit the results are in non-increasing
\* score order and there are at most limit of them.
C4_TopK_AnyLimit ==
    spc = "done" => NonIncreasing(results) /\ Len(results) <= limit

\* C4 amended: for every limit >= 0 the results are in non-increasing score
\* order and there are at most limit of them.
C4_TopK_NonNegativeLimit ==
    (spc = "done" /\ limit >= 0)
        => NonIncreasing(results) /\ Len(results) <= limit

\* more candidates than the limit, cut to the limit, with distinct scores
C4_Witness ==
    /\ spc = "done"
    /\ limit >= 2
    /\ Len(results) = limit
    /\ Len(Scores(index_entries)) > limit
    /\ results[1].score > results[Len(results)].score

\* C5: over an index built from a non-empty corpus, every score a search
\* returns is >= 0, also when a query term occurs in every document.
C5_ScoresNonNegative ==
    (spc = "done" /\ bpc = "idle")
        => \A i \in DOMAIN results : results[i].score >= 0

Position(rs, id) == CHOOSE i \in DOMAIN rs : rs[i].id = Str(id)

Listed(rs, id) == \E i \in DOMAIN rs : rs[i].id = Str(id)

\* C6: over the index of the three captions, "red car" with limit 25 gives
\* Doc A a strictly higher score and an earlier rank than Doc B and Doc C.
C6_BothTermsOutrankOne ==
    ( /\ image_files = ScenarioCorpus
      /\ bpc = "idle"
      /\ spc = "done"
      /\ query = RedCar
      /\ limit = DefaultLimit )
        => /\ Listed(results, DocA)
           /\ \A d \in {DocB, DocC} :
                Listed(results, d) =>
                  /\ results[Position(results, DocA)].score
                       > results[Position(results, d)].score
                  /\ Position(results, DocA) < Position(results, d)

\* C7: after a run that completes, a record of image_files without tokens
\* has no image_documents entry and is in no posting list, even if the
\* prior index held it, and the idf of every term counts only the records
\* with tokens.
C7_TokenlessNotIndexed ==
    bpc = "complete" =>
        /\ \A i \in DOMAIN image_files :
             ImageTokens(image_files[i]) = <<>> =>
                /\ image_files[i]._id \notin DocIds(image_documents)
                /\ image_files[i]._id \notin PostedIds(image_terms)
        /\ \A e \in image_terms :
             e.idf = Log(Cardinality({i \in DOMAIN image_files :
                                         ImageTokens(image_files[i]) # <<>>}),
                         1 + Len(e.docs))

\* a completed run over a token-less record the prior index held, beside a
\* record with tokens
C7_Witness ==
    /\ bpc = "complete"
    /\ image_documents # {}
    /\ \E i \in DOMAIN image_files :
         /\ ImageTokens(image_files[i]) = <<>>
         /\ image_files[i]._id \in DocIds(old_docs)
         /\ image_files[i]._id \in PostedIds(old_terms)

HasMetadata(c) == c.doc_id \in DocIds(seen_docs)

IdAndScore(rs) == [i \in DOMAIN rs |-> <<rs[i].id, rs[i].score>>]

Candidates(cs) == [i \in DOMAIN cs |-> <<Str(cs[i].doc_id), cs[i].score>>]

\* C8: the search returns normally, with exactly the top-limit candidates
\* whose id has an entry in the metadata table, in score order (stated
\* here for the limits >= 0).
C8_ExactlyCandidatesWithMetadata ==
    (spc \in {"done", "error"} /\ limit >= 0)
        => /\ spc = "done"
           /\ IdAndScore(results) =
                Candidates(SelectSeq(TopDocs(index_entries, limit), HasMetadata))

\* C9: tokenize of the space-joined output of tokenize is that output, for
\* the builder's tokenize and for the query path's.
C9_TokenizeIdempotent ==
    tpc = "done" => retokB = tokensB /\ retokQ = tokensQ

\* two different tokens from a text with an uppercase letter, a stopword
\* or short run dropped
C9_Witness ==
    /\ tpc = "done"
    /\ Len(tokensB) = 2
    /\ tokensB[1] # tokensB[2]
    /\ "T" \in Range(text)
    /\ Len(tokensQ) = 2

CanonicalOrder(S) == CHOOSE s \in Perms(S) : TRUE

\* C10: the results are the same in whatever order the store returned the
\* term entries: they are those of one fixed order of the same entries
\* (stated here for the limits >= 0).
C10_SameResultsInAnyOrder ==
    (spc = "done" /\ reads = 2 /\ limit >= 0) =>
        LET top == TopDocs(CanonicalOrder(Range(index_entries)), limit)
        IN  results = Hits(top, FetchDocs(seen_docs, NormalizedIds(top)))

----------------------------------------------------------------------------
(* Specifications *)

Next == BuildStart \/ Persist \/ BuildFail \/ Search

Spec == Init /\ [][Next]_vars

NextSearch == BuildStart \/ Persist \/ Search

SpecSearch == InitSearch /\ [][NextSearch]_vars

NextTok == TokenizeText \/ TokenizeJoined

SpecTok == InitTok /\ [][NextTok]_vars

====
